---- MODULE Spec2Model ----
(***************************************************************************)
(* State-machine model of the DoubtGPT chat UI.                            *)
(*                                                                         *)
(*   src/src/pages/Index.tsx   landing page (search entry <-> chat)        *)
(*   src/unnamed/part_001      ChatInterface with image upload, a bounded  *)
(*                             retry loop on HTTP 429 and a clear button   *)
(*                             ("retry" revision)                          *)
(*   src/unnamed/part_000      ChatInterface, text only, one adapter call  *)
(*                             per submission ("basic" revision)           *)
(*                             (definitions prefixed Basic)                *)
(*                                                                         *)
(* handleSendMessage is an async function: every `await` is a point where  *)
(* the event loop may run another handler, so each run of it is a process  *)
(* (an entry of subs) whose pc names the await it is suspended at.  One    *)
(* action is one synchronous segment of code between two awaits.          *)
(*                                                                         *)
(* Not modelled: isVisible (part_001:34, part_000:21), which only drives   *)
(* the fade-in CSS classes of the component and is read by no handler.     *)
(***************************************************************************)
EXTENDS Integers, Sequences, FiniteSets, TLC

VARIABLES
    revision,       \* which ChatInterface source is built: "retry" | "basic"
    isChatVisible,  \* Index.tsx:9
    initialQuery,   \* Index.tsx:10
    mounted,        \* ChatInterface's mount effect (useEffect, []) has run
    messages,       \* part_001:31 / part_000:18
    isLoading,      \* part_001:32 / part_000:19
    toasts,         \* every toast(...) call made so far, in call order
    subs,           \* one record per invocation of handleSendMessage
    settled         \* ids of the invocations that have run `finally`, in order

vars == <<revision, isChatVisible, initialQuery, mounted, messages,
          isLoading, toasts, subs, settled>>

----------------------------------------------------------------------------
(* Bounds of the model *)

\* number of handleSendMessage invocations explored
MaxSubmissions == 2

\* number of handleSendMessage invocations explored where every behaviour is
\* followed to its end (SpecLive)
MaxLiveSubmissions == 1

\* number of clicks on the Clear Chat button explored
MaxClears == 1

\* number of generateContent calls explored, over all invocations together
MaxCalls == 3

(* Inputs *)
Queries == {"", "q"}
NoImage == "none"
\* the (query, image) pairs submitted through the chat's search bar:
\* a text question, and an image with no text
Submissions == {<<"q", NoImage>>, <<"", "img.png">>}

\* every combination of text / no text and image / no image
AllSubmissions == Queries \X {NoImage, "img.png"}

(* An error's `status` property: 429, another HTTP status, or 0 for an     *)
(* error object that has no status (FileReader error event, Error, ...).   *)
RateLimitStatus == 429
OtherStatus == 500
NoStatus == 0
AdapterErrorStatuses == {RateLimitStatus, OtherStatus, NoStatus}

\* a thrown value that is not an object (undefined, null): reading its
\* `status` throws a TypeError
Nullish == 0 - 1

\* what the await of result.response, or response.text(), can throw: an
\* error object with or without status, or (as the language allows, though
\* the adapter's errors are Error objects) a nullish value
ThrownValues == AdapterErrorStatuses \cup {Nullish}

\* what a generateContent call that resolves can deliver:
\*   "ok"          a result whose response text can be read
\*   "unreadable"  a truthy result whose response is missing or rejects, or
\*                 whose text() throws
\*   "empty"       a falsy result
AdapterResults == {"ok", "unreadable", "empty"}

Undefined == "undefined"

----------------------------------------------------------------------------
(* Pure helpers *)

\* variant without the placeholder label
UserMessageNoPlaceholder(query, imageUrl, id) ==
    [content |-> query, isUser |-> TRUE, image |-> imageUrl, id |-> id]

\* part_001:58-62   { content: query || "Image analysis request", isUser: true, image: imageUrl }
\* (id is a ghost field: the invocation that created the message)
UserMessage(query, imageUrl, id) ==
    [content |-> IF query # "" THEN query ELSE "Image analysis request",
     isUser  |-> TRUE,
     image   |-> imageUrl,
     id      |-> id]

\* part_000:36   { content: query, isUser: true }
BasicUserMessage(query, id) ==
    [content |-> query, isUser |-> TRUE, image |-> Undefined, id |-> id]

\* the text the model answers with
ResponseText == "answer"

\* part_001:112 / part_000:48   { content: text, isUser: false }
AssistantMessage(text, id) ==
    [content |-> text, isUser |-> FALSE, image |-> Undefined, id |-> id]

\* variants of the append: newest first, and replacing the list
PrependMessage(prev, m) == <<m>> \o prev
ReplaceMessages(prev, m) == <<m>>

\* part_001:58, 112   setMessages((prev) => [...prev, m])
AppendMessage(prev, m) == Append(prev, m)

\* variant of the text-only revision's append: newest first
BasicPrependMessage(prev, m) == <<m>> \o prev

\* part_000:36, 48    setMessages((prev) => [...prev, m])
BasicAppendMessage(prev, m) == Append(prev, m)

\* variant of the clear that keeps the user's own messages
ClearedAnswersOnly(prev) == SelectSeq(prev, LAMBDA m : m.isUser)

\* part_001:132   setMessages([])
ClearedMessages(prev) == << >>

\* part_001:52   URL.createObjectURL(image)
CreateObjectURL(image) == "blob:img.png"

\* part_001:19-26  the data URL the FileReader produces on success
DataURL(image) == "data:image/png;base64,AAAA"

\* variant with one more attempt
InitialRetriesFour == 3 + 1

\* part_001:69
InitialRetries == 3

\* variants of the retry condition: retry while any attempt is counted,
\* retry only while more than two remain, retry on any error
ShouldRetryUntilZero(status, retries) == status = RateLimitStatus /\ retries > 0
ShouldRetryOnce(status, retries) == status = RateLimitStatus /\ retries > 2
ShouldRetryAnyError(status, retries) == retries > 1

\* part_001:94   error.status === 429 && retries > 1
ShouldRetry(status, retries) == status = RateLimitStatus /\ retries > 1

\* part_001:115-119
ErrorDescription(status) ==
    IF status = RateLimitStatus
    THEN "We've hit the API rate limit. Please try again in a few minutes."
    ELSE "Failed to generate response. Please try again."

\* part_001:121-125   (id is a ghost field: the invocation that raised it)
ErrorToast(status, id) ==
    [title |-> "Error", description |-> ErrorDescription(status),
     variant |-> "destructive", id |-> id]

\* part_000:51-55
BasicErrorToast(status, id) ==
    [title |-> "Error",
     description |-> "Failed to generate response. Please try again.",
     variant |-> "destructive", id |-> id]

\* part_001:133-136
ClearToast ==
    [title |-> Undefined, description |-> "Chat history cleared",
     variant |-> "default", id |-> 0]

\* part_001:143   {messages.length > 0 && <Button onClick={handleClearChat}>}
ClearButtonShown == Len(messages) > 0

\* number of handleClearChat calls so far (each one raises ClearToast)
ClearCount == Cardinality({k \in 1..Len(toasts) : toasts[k] = ClearToast})

----------------------------------------------------------------------------
(* The record of one handleSendMessage invocation.                         *)
(*   pc       "encoding"   suspended at part_001:53                        *)
(*            "calling"    suspended at part_001:78/89 or part_000:44      *)
(*            "delaying"   suspended at part_001:97                        *)
(*            "responding" suspended at part_001:108 or part_000:45        *)
(*            "done"       returned                                        *)
(*   retries  the loop counter (0 until part_001:69 has run)               *)
(*   result   Undefined, or the kind of result received ("ok" /            *)
(*            "unreadable")                                                *)
(*   ghost fields: calls, delays count the adapter calls and delay(2000)   *)
(*   calls issued; log is what the adapter did, in order: "ok" / "empty"   *)
(*   / "unreadable" / "e429" / "error" for each generateContent call;      *)
(*   outcome, error (the status of the error caught) and thrown (where    *)
(*   that error was thrown: "reader" part_001:24, "adapter" :100 or        *)
(*   part_000:44, "no result" :105 or part_000:45, "response" :108-109 or  *)
(*   part_000:45-46) say how the invocation ended; unhandled says that    *)
(*   the promise of handleSendMessage rejected.                            *)
NewSub(query, image) ==
    [pc |-> "start", query |-> query, image |-> image,
     imageUrl |-> Undefined, base64Image |-> Undefined,
     retries |-> 0, result |-> Undefined,
     calls |-> 0, delays |-> 0, log |-> << >>,
     outcome |-> "pending", error |-> NoStatus, thrown |-> "none",
     unhandled |-> FALSE]

\* variant that issues the first call without appending the user message
EnterLoopNoAppend(s, id, msgs) ==
    [msgs |-> msgs,
     sub  |-> [s EXCEPT !.pc = "calling", !.retries = InitialRetries,
                        !.calls = s.calls + 1]]

\* part_001:57-89: append the user message, enter the loop, issue the first call
EnterLoop(s, id, msgs) ==
    [msgs |-> AppendMessage(msgs, UserMessage(s.query, s.imageUrl, id)),
     sub  |-> [s EXCEPT !.pc = "calling", !.retries = InitialRetries,
                        !.calls = s.calls + 1]]

Init ==
    /\ revision \in {"retry", "basic"}
    /\ isChatVisible = FALSE
    /\ initialQuery = ""
    /\ mounted = FALSE
    /\ messages = << >>
    /\ isLoading = FALSE
    /\ toasts = << >>
    /\ subs = << >>
    /\ settled = << >>

----------------------------------------------------------------------------
(* Index.tsx *)

\* Index.tsx:12-15; the search bar is hidden once the chat is visible (:36)
handleSearchSubmit ==
    /\ ~isChatVisible
    /\ \E query \in Queries :
        /\ initialQuery' = query
        /\ isChatVisible' = TRUE
    /\ UNCHANGED <<revision, mounted, messages, isLoading, toasts,
                   subs, settled>>

----------------------------------------------------------------------------
(* part_001: ChatInterface with retry *)

\* variant that appends the user message before the image is encoded
SendStartAppendFirst(query, image) ==
    LET id == Len(subs) + 1
        s0 == NewSub(query, image)
    IN  /\ isLoading' = TRUE
        /\ IF image # NoImage
           THEN /\ subs' = Append(subs, [s0 EXCEPT !.pc = "encoding",
                                         !.imageUrl = CreateObjectURL(image)])
                /\ messages' = AppendMessage(messages,
                        UserMessage(query, CreateObjectURL(image), id))
           ELSE LET e == EnterLoop(s0, id, messages)
                IN  /\ subs' = Append(subs, e.sub)
                    /\ messages' = e.msgs
        /\ UNCHANGED <<toasts, settled>>

\* variant that does not await the encoding: the user message is appended
\* and the first call issued while the image is still being read
SendStartNoAwait(query, image) ==
    LET id == Len(subs) + 1
        s0 == NewSub(query, image)
        e == EnterLoop([s0 EXCEPT !.imageUrl =
                            IF image # NoImage THEN CreateObjectURL(image)
                                               ELSE Undefined],
                       id, messages)
    IN  /\ isLoading' = TRUE
        /\ subs' = Append(subs, e.sub)
        /\ messages' = e.msgs
        /\ UNCHANGED <<toasts, settled>>

\* part_001:43-89, the synchronous segment from entry to the first await
\* (convertImageToBase64 when an image is given, else the first adapter call)
SendStart(query, image) ==
    LET id == Len(subs) + 1
        s0 == NewSub(query, image)
    IN  /\ isLoading' = TRUE
        /\ IF image # NoImage
           THEN /\ subs' = Append(subs, [s0 EXCEPT !.pc = "encoding",
                                         !.imageUrl = CreateObjectURL(image)])
                /\ messages' = messages
           ELSE LET e == EnterLoop(s0, id, messages)
                IN  /\ subs' = Append(subs, e.sub)
                    /\ messages' = e.msgs
        /\ UNCHANGED <<toasts, settled>>

\* variant of the failure path that only logs the error
FailSilently(i, s, status) ==
    /\ toasts' = toasts
    /\ isLoading' = FALSE
    /\ subs' = [subs EXCEPT ![i] = [s EXCEPT !.pc = "done",
                                    !.outcome = "failed", !.error = status]]
    /\ settled' = Append(settled, i)

\* variant without the finally block: the busy flag is reset on success only
FailKeepsBusy(i, s, status) ==
    /\ toasts' = Append(toasts, ErrorToast(status, i))
    /\ isLoading' = isLoading
    /\ subs' = [subs EXCEPT ![i] = [s EXCEPT !.pc = "done",
                                    !.outcome = "failed", !.error = status]]
    /\ settled' = Append(settled, i)

\* part_001:113-128, catch and finally
Fail(i, s, status) ==
    /\ toasts' = Append(toasts, ErrorToast(status, i))
    /\ isLoading' = FALSE
    /\ subs' = [subs EXCEPT ![i] = [s EXCEPT !.pc = "done",
                                    !.outcome = "failed", !.error = status]]
    /\ settled' = Append(settled, i)

\* part_001:113-117, 126-128   the catch itself throws: `error.status` of a
\* nullish value is a TypeError at :117, so no toast is raised; finally
\* runs and the promise of handleSendMessage rejects, unhandled
FailUncaught(i, s) ==
    /\ toasts' = toasts
    /\ isLoading' = FALSE
    /\ subs' = [subs EXCEPT ![i] = [s EXCEPT !.pc = "done",
                                    !.outcome = "failed",
                                    !.unhandled = TRUE]]
    /\ settled' = Append(settled, i)

\* variant of the mount effect without the `if (initialQuery)` test
ChatMountAlways ==
    /\ revision = "retry"
    /\ isChatVisible /\ ~mounted
    /\ mounted' = TRUE
    /\ SendStart(initialQuery, NoImage)
    /\ UNCHANGED <<revision, isChatVisible, initialQuery>>

\* part_001:36-41
ChatMount ==
    /\ revision = "retry"
    /\ isChatVisible /\ ~mounted
    /\ mounted' = TRUE
    /\ IF initialQuery # ""
       THEN SendStart(initialQuery, NoImage)
       ELSE UNCHANGED <<messages, isLoading, toasts, subs, settled>>
    /\ UNCHANGED <<revision, isChatVisible, initialQuery>>

\* part_001:169   <SearchBar onSubmit={handleSendMessage} />
handleSendMessage ==
    /\ revision = "retry"
    /\ mounted
    /\ Len(subs) < MaxSubmissions
    /\ \E p \in Submissions : SendStart(p[1], p[2])
    /\ UNCHANGED <<revision, isChatVisible, initialQuery, mounted>>

\* part_001:23, 53-89   reader.onload: encoding done, go on to the first call
EncodeResolve ==
    /\ revision = "retry"
    /\ \E i \in 1..Len(subs) :
        /\ subs[i].pc = "encoding"
        /\ LET e == EnterLoop([subs[i] EXCEPT
                                 !.base64Image = DataURL(subs[i].image)],
                              i, messages)
           IN  /\ subs' = [subs EXCEPT ![i] = e.sub]
               /\ messages' = e.msgs
    /\ UNCHANGED <<revision, isChatVisible, initialQuery, mounted,
                   isLoading, toasts, settled>>

\* variant in which a failed encoding is swallowed and the query is sent
\* without the image
EncodeRejectSwallowed ==
    /\ revision = "retry"
    /\ \E i \in 1..Len(subs) :
        /\ subs[i].pc = "encoding"
        /\ LET e == EnterLoop(subs[i], i, messages)
           IN  /\ subs' = [subs EXCEPT ![i] = e.sub]
               /\ messages' = e.msgs
    /\ UNCHANGED <<revision, isChatVisible, initialQuery, mounted,
                   isLoading, toasts, settled>>

\* part_001:24, 53, 113-128   reader.onerror: the await at :53 throws
EncodeReject ==
    /\ revision = "retry"
    /\ \E i \in 1..Len(subs) :
        /\ subs[i].pc = "encoding"
        /\ Fail(i, [subs[i] EXCEPT !.thrown = "reader"], NoStatus)
    /\ UNCHANGED <<revision, isChatVisible, initialQuery, mounted, messages>>

\* part_001:78-91, 104-108   generateContent resolved: leave the loop, throw
\* on a falsy result (:104-106), else suspend at `await result.response`
GenerateResolve ==
    /\ revision = "retry"
    /\ \E i \in 1..Len(subs), outcome \in AdapterResults :
        /\ subs[i].pc = "calling"
        /\ LET s == [subs[i] EXCEPT
                       !.result = IF outcome = "empty" THEN Undefined
                                                       ELSE outcome,
                       !.log = Append(@, outcome)]
           IN  IF s.result = Undefined
               THEN Fail(i, [s EXCEPT !.thrown = "no result"], NoStatus)
               ELSE /\ subs' = [subs EXCEPT ![i] = [s EXCEPT
                                                    !.pc = "responding"]]
                    /\ UNCHANGED <<isLoading, toasts, settled>>
    /\ UNCHANGED <<revision, isChatVisible, initialQuery, mounted, messages>>

\* part_001:108-112, 126-128   the await of result.response returns: read
\* the text and append the answer; a response that is missing or rejected,
\* or whose text() throws, goes to the catch of :113 with the value thrown
ResponseResolve ==
    /\ revision = "retry"
    /\ \E i \in 1..Len(subs) :
        /\ subs[i].pc = "responding"
        /\ IF subs[i].result = "ok"
           THEN /\ messages' = AppendMessage(messages,
                                    AssistantMessage(ResponseText, i))
                /\ isLoading' = FALSE
                /\ subs' = [subs EXCEPT ![i].pc = "done",
                                        ![i].outcome = "success"]
                /\ settled' = Append(settled, i)
                /\ toasts' = toasts
           ELSE /\ \E e \in ThrownValues :
                    LET s == [subs[i] EXCEPT !.thrown = "response"]
                    IN  IF e = Nullish THEN FailUncaught(i, s)
                                       ELSE Fail(i, s, e)
                /\ messages' = messages
    /\ UNCHANGED <<revision, isChatVisible, initialQuery, mounted>>

\* part_001:92-101   generateContent rejected with an error of the given
\* status.  (A nullish rejection makes :94 throw a TypeError inside the inner
\* catch, which the outer catch receives: the path of an error without
\* status.)
GenerateReject ==
    /\ revision = "retry"
    /\ \E i \in 1..Len(subs), status \in AdapterErrorStatuses :
        /\ subs[i].pc = "calling"
        /\ LET s == [subs[i] EXCEPT !.log = Append(@,
                        IF status = RateLimitStatus THEN "e429" ELSE "error")]
           IN  IF ShouldRetry(status, s.retries)
               THEN /\ subs' = [subs EXCEPT ![i] = [s EXCEPT
                                    !.retries = s.retries - 1,
                                    !.delays = s.delays + 1,
                                    !.pc = "delaying"]]
                    /\ UNCHANGED <<isLoading, toasts, settled>>
               ELSE Fail(i, [s EXCEPT !.thrown = "adapter"], status)
    /\ UNCHANGED <<revision, isChatVisible, initialQuery, mounted, messages>>

\* part_001:97-98, 71-89, 104-106   delay(2000) elapsed: continue the loop
DelayElapsed ==
    /\ revision = "retry"
    /\ \E i \in 1..Len(subs) :
        /\ subs[i].pc = "delaying"
        /\ IF subs[i].retries > 0
           THEN /\ subs' = [subs EXCEPT ![i].pc = "calling",
                                        ![i].calls = @ + 1]
                /\ UNCHANGED <<isLoading, toasts, settled>>
           ELSE Fail(i, [subs[i] EXCEPT !.thrown = "no result"], NoStatus)
    /\ UNCHANGED <<revision, isChatVisible, initialQuery, mounted, messages>>

\* variant of the clear that also resets the busy flag
handleClearChatResetsBusy ==
    /\ revision = "retry"
    /\ mounted
    /\ ClearButtonShown
    /\ ClearCount < MaxClears
    /\ messages' = ClearedMessages(messages)
    /\ toasts' = Append(toasts, ClearToast)
    /\ isLoading' = FALSE
    /\ UNCHANGED <<revision, isChatVisible, initialQuery, mounted,
                   subs, settled>>

\* part_001:131-137, reachable through the button of :143-151
handleClearChat ==
    /\ revision = "retry"
    /\ mounted
    /\ ClearButtonShown
    /\ ClearCount < MaxClears
    /\ messages' = ClearedMessages(messages)
    /\ toasts' = Append(toasts, ClearToast)
    /\ UNCHANGED <<revision, isChatVisible, initialQuery, mounted,
                   isLoading, subs, settled>>

----------------------------------------------------------------------------
(* part_000: ChatInterface, text only, no retry *)

\* part_000:33-44, the synchronous segment from entry to the adapter call
BasicSendStart(query) ==
    LET id == Len(subs) + 1
        s0 == NewSub(query, NoImage)
    IN  /\ isLoading' = TRUE
        /\ messages' = BasicAppendMessage(messages, BasicUserMessage(query, id))
        /\ subs' = Append(subs, [s0 EXCEPT !.pc = "calling", !.calls = 1])
        /\ UNCHANGED <<toasts, settled>>

\* part_000:49-58, catch and finally
BasicFail(i, s, status) ==
    /\ toasts' = Append(toasts, BasicErrorToast(status, i))
    /\ isLoading' = FALSE
    /\ subs' = [subs EXCEPT ![i] = [s EXCEPT !.pc = "done",
                                    !.outcome = "failed", !.error = status]]
    /\ settled' = Append(settled, i)

\* part_000:23-31
BasicChatMount ==
    /\ revision = "basic"
    /\ isChatVisible /\ ~mounted
    /\ mounted' = TRUE
    /\ IF initialQuery # ""
       THEN BasicSendStart(initialQuery)
       ELSE UNCHANGED <<messages, isLoading, toasts, subs, settled>>
    /\ UNCHANGED <<revision, isChatVisible, initialQuery>>

\* part_000:79   <SearchBar onSubmit={handleSendMessage} />
BasicHandleSendMessage ==
    /\ revision = "basic"
    /\ mounted
    /\ Len(subs) < MaxSubmissions
    /\ \E query \in Queries : BasicSendStart(query)
    /\ UNCHANGED <<revision, isChatVisible, initialQuery, mounted>>

\* part_000:44-45   generateContent resolved; reading .response of a falsy
\* result throws a TypeError, else suspend at `await result.response`
BasicGenerateResolve ==
    /\ revision = "basic"
    /\ \E i \in 1..Len(subs), outcome \in AdapterResults :
        /\ subs[i].pc = "calling"
        /\ LET s == [subs[i] EXCEPT
                       !.result = IF outcome = "empty" THEN Undefined
                                                       ELSE outcome,
                       !.log = Append(@, outcome)]
           IN  IF s.result = Undefined
               THEN BasicFail(i, [s EXCEPT !.thrown = "no result"], NoStatus)
               ELSE /\ subs' = [subs EXCEPT ![i] = [s EXCEPT
                                                    !.pc = "responding"]]
                    /\ UNCHANGED <<isLoading, toasts, settled>>
    /\ UNCHANGED <<revision, isChatVisible, initialQuery, mounted, messages>>

\* part_000:45-48, 56-58   the await of result.response returns
BasicResponseResolve ==
    /\ revision = "basic"
    /\ \E i \in 1..Len(subs) :
        /\ subs[i].pc = "responding"
        /\ IF subs[i].result = "ok"
           THEN /\ messages' = BasicAppendMessage(messages,
                                    AssistantMessage(ResponseText, i))
                /\ isLoading' = FALSE
                /\ subs' = [subs EXCEPT ![i].pc = "done",
                                        ![i].outcome = "success"]
                /\ settled' = Append(settled, i)
                /\ toasts' = toasts
           ELSE /\ \E e \in ThrownValues :
                    BasicFail(i, [subs[i] EXCEPT !.thrown = "response"],
                              IF e = Nullish THEN NoStatus ELSE e)
                /\ messages' = messages
    /\ UNCHANGED <<revision, isChatVisible, initialQuery, mounted>>

\* part_000:44, 49-58   generateContent rejected
BasicGenerateReject ==
    /\ revision = "basic"
    /\ \E i \in 1..Len(subs), status \in AdapterErrorStatuses :
        /\ subs[i].pc = "calling"
        /\ BasicFail(i, [subs[i] EXCEPT !.log = Append(@,
                        IF status = RateLimitStatus THEN "e429" ELSE "error"),
                                        !.thrown = "adapter"],
                     status)
    /\ UNCHANGED <<revision, isChatVisible, initialQuery, mounted, messages>>

----------------------------------------------------------------------------
\* generateContent calls issued so far, over all invocations
RECURSIVE SumCalls(_)
SumCalls(ss) == IF ss = << >> THEN 0 ELSE Head(ss).calls + SumCalls(Tail(ss))

\* one step of the program: a handler or a callback runs
Step ==
    \/ handleSearchSubmit
    \/ ChatMount
    \/ handleSendMessage
    \/ EncodeResolve
    \/ EncodeReject
    \/ GenerateResolve
    \/ GenerateReject
    \/ ResponseResolve
    \/ DelayElapsed
    \/ handleClearChat
    \/ BasicChatMount
    \/ BasicHandleSendMessage
    \/ BasicGenerateResolve
    \/ BasicGenerateReject
    \/ BasicResponseResolve

Next == Step /\ SumCalls(subs') <= MaxCalls

Spec == Init /\ [][Next]_vars

\* a step in which the catch of part_001:113 receives a value that is not
\* an object and throws
CatchThrows ==
    \E i \in 1..Len(subs) : ~subs[i].unhandled /\ subs'[i].unhandled

(* The behaviours in which every value thrown to handleSendMessage is an    *)
(* error object, as the errors of the adapter are.                         *)
NextErrorObjects == Next /\ ~CatchThrows

SpecErrorObjects == Init /\ [][NextErrorObjects]_vars

(* The same steps, with at most MaxLiveSubmissions invocations, and the     *)
(* environment's side of every await: a pending convertImageToBase64,      *)
(* generateContent, delay or result.response promise of invocation i       *)
(* eventually settles.                                                     *)
NextLive == Step /\ Len(subs') <= MaxLiveSubmissions

Returns(i) ==
    /\ i \in 1..Len(subs)
    /\ subs[i].pc # "done"
    /\ \/ EncodeResolve \/ EncodeReject
       \/ GenerateResolve \/ GenerateReject \/ ResponseResolve
       \/ DelayElapsed
       \/ BasicGenerateResolve \/ BasicGenerateReject
       \/ BasicResponseResolve
    /\ subs'[i] # subs[i]

SpecLive ==
    /\ Init /\ [][NextLive]_vars
    /\ \A i \in 1..MaxLiveSubmissions : WF_vars(Returns(i))

\* part_001:169   handleSendMessage called with any combination of inputs
handleSendAnyMessage ==
    /\ revision = "retry"
    /\ mounted
    /\ \E p \in AllSubmissions : SendStart(p[1], p[2])
    /\ UNCHANGED <<revision, isChatVisible, initialQuery, mounted>>

(* The same steps with every combination of inputs to handleSendMessage,   *)
(* for at most MaxLiveSubmissions invocations.                             *)
NextInputs == (Step \/ handleSendAnyMessage) /\ Len(subs') <= MaxLiveSubmissions

SpecInputs == Init /\ [][NextInputs]_vars

TypeOK ==
    /\ revision \in {"retry", "basic"}
    /\ isChatVisible \in BOOLEAN /\ mounted \in BOOLEAN
    /\ isLoading \in BOOLEAN
    /\ initialQuery \in Queries
    /\ Len(subs) <= MaxSubmissions
    /\ \A i \in 1..Len(subs) :
        subs[i].pc \in {"encoding", "calling", "delaying", "responding",
                        "done"}

----------------------------------------------------------------------------
(* Vocabulary of the properties *)

Ids == 1..Len(subs)
Retry == revision = "retry"

GenericDescription == "Failed to generate response. Please try again."
RateLimitDescription ==
    "We've hit the API rate limit. Please try again in a few minutes."

\* positions of the error notifications raised by invocation i
ErrorToastsOf(i) ==
    {k \in 1..Len(toasts) : toasts[k].id = i /\ toasts[k].title = "Error"}
\* positions of the user / assistant messages of invocation i
UserMsgsOf(i) ==
    {k \in 1..Len(messages) : messages[k].id = i /\ messages[k].isUser}
AssistantMsgsOf(i) ==
    {k \in 1..Len(messages) : messages[k].id = i /\ ~messages[k].isUser}

\* invocation i raised exactly one error notification, with description d
OneErrorToast(i, d) ==
    /\ Cardinality(ErrorToastsOf(i)) = 1
    /\ \A k \in ErrorToastsOf(i) : toasts[k].description = d

AllRateLimited(log) == \A k \in 1..Len(log) : log[k] = "e429"
\* k rate-limit failures followed by one successful call
RateLimitedThenOk(log, k) ==
    /\ Len(log) = k + 1
    /\ \A j \in 1..k : log[j] = "e429"
    /\ log[k + 1] = "ok"

\* invocation i takes the step that settles it (runs its finally block)
Settles(i) == i \in Ids /\ subs[i].pc # "done" /\ subs'[i].pc = "done"
IsClearStep == ClearCount' # ClearCount

IdsOf(seq) == [k \in 1..Len(seq) |-> seq[k].id]
IsAssistant(m) == ~m.isUser
Succeeded(i) == subs[i].outcome = "success"
\* ids of the assistant messages, in display order
AssistantOrder == IdsOf(SelectSeq(messages, IsAssistant))
\* ids of the successful invocations, in order of completion
CompletionOrder == SelectSeq(settled, Succeeded)

----------------------------------------------------------------------------
(* C1. Retry revision: when every adapter call of a submission fails with  *)
(* status 429, the submission makes no more than 3 adapter calls, has      *)
(* failed once the third one failed, with exactly 3 calls and 2 retry      *)
(* delays made (none after the third failure), and its one notification is *)
(* the rate-limit message, not the generic one.                            *)
C1_RateLimitExhaustion ==
    Retry => \A i \in Ids :
        LET s == subs[i] IN
        (s.log # << >> /\ AllRateLimited(s.log)) =>
            /\ Len(s.log) <= 3
            /\ Len(s.log) = 3 => s.pc = "done"
            /\ s.pc = "done" =>
                /\ s.outcome = "failed"
                /\ Len(s.log) = 3 /\ s.calls = 3 /\ s.delays = 2
                /\ OneErrorToast(i, RateLimitDescription)

C1_Witness ==
    /\ Retry
    /\ \E i \in Ids : /\ subs[i].pc = "done"
                       /\ subs[i].log = <<"e429", "e429", "e429">>
                       /\ subs[i].calls = 3

(* C2. Retry revision: when the adapter fails with status 429 exactly k    *)
(* times (k in 0..2) and then succeeds (delivers a result whose response   *)
(* can be read), the submission succeeds: after j <= 2 rate-limit failures *)
(* it is still attempting, having made j delays (one after each failed     *)
(* attempt) and at most j+1 calls; once it has the result it makes no      *)
(* further call or delay (exactly k+1 calls and k delays), raises no error *)
(* notification and can only settle as a success; and the step that        *)
(* settles it appends its assistant message.                               *)
C2_SucceedsAfterRateLimits ==
    /\ [](Retry => \A i \in Ids :
            LET s == subs[i] IN
            /\ (AllRateLimited(s.log) /\ Len(s.log) \in 1..2) =>
                    /\ s.pc \in {"delaying", "calling"}
                    /\ s.delays = Len(s.log)
                    /\ s.calls = IF s.pc = "calling" THEN Len(s.log) + 1
                                                    ELSE Len(s.log)
            /\ \A k \in 0..2 :
                RateLimitedThenOk(s.log, k) =>
                    /\ s.pc \in {"responding", "done"}
                    /\ s.pc = "done" <=> s.outcome = "success"
                    /\ s.outcome # "failed"
                    /\ s.calls = k + 1 /\ s.delays = k
                    /\ ErrorToastsOf(i) = {})
    /\ [][Retry => \A i \in Ids :
            (Settles(i) /\ \E k \in 0..2 : RateLimitedThenOk(subs'[i].log, k)) =>
                /\ messages' = Append(messages,
                        [content |-> ResponseText, isUser |-> FALSE,
                         image |-> Undefined, id |-> i])
                /\ toasts' = toasts]_vars

C2_Witness ==
    /\ Retry
    /\ \E i \in Ids : /\ subs[i].pc = "done"
                       /\ subs[i].outcome = "success"
                       /\ subs[i].log = <<"e429", "e429", "ok">>
                       /\ AssistantMsgsOf(i) # {}

(* C3. Retry revision: an adapter failure whose status is not 429 ends the *)
(* submission at once, on whichever attempt it occurs: it is the last      *)
(* adapter call of the submission, no delay follows it (the delays made    *)
(* are those of the earlier rate-limit failures), and the one notification *)
(* is the generic message; a non-429 failure on the first attempt gives    *)
(* exactly 1 call and 0 delays.                                            *)
C3_OtherFailureIsImmediate ==
    Retry => \A i \in Ids :
        LET s == subs[i] IN
        \A k \in 1..Len(s.log) :
            s.log[k] = "error" =>
                /\ k = Len(s.log)
                /\ s.pc = "done" /\ s.outcome = "failed"
                /\ s.calls = k /\ s.delays = k - 1
                /\ OneErrorToast(i, GenericDescription)
                /\ (k = 1 => s.calls = 1 /\ s.delays = 0)

C3_Witness ==
    /\ Retry
    /\ \E i, j \in Ids : /\ subs[i].log = <<"error">>
                          /\ subs[i].pc = "done"
                          /\ subs[j].log = <<"e429", "error">>
                          /\ subs[j].pc = "done"

(* C4. For every submission, the busy flag isLoading is true at every      *)
(* point after the submission has executed setIsLoading(true) and before   *)
(* it has settled, also when a second submission starts before the first   *)
(* settles.  (An entry of subs exists from setIsLoading(true) on.)         *)
C4_BusyWhileInFlight ==
    \A i \in Ids : subs[i].pc # "done" => isLoading

(* C5. In a run with no clear in which N submissions have started and all  *)
(* have settled successfully, the message sequence has length 2N, holds    *)
(* exactly one user and one assistant message per submission, and the      *)
(* assistant messages are in the order in which the submissions completed. *)
C5_TwoMessagesPerSuccess ==
    (/\ ClearCount = 0
     /\ \A i \in Ids : subs[i].pc = "done" /\ subs[i].outcome = "success") =>
        /\ Len(messages) = 2 * Len(subs)
        /\ \A i \in Ids : /\ Cardinality(UserMsgsOf(i)) = 1
                           /\ Cardinality(AssistantMsgsOf(i)) = 1
        /\ AssistantOrder = settled

C5_Witness ==
    /\ ClearCount = 0
    /\ Len(subs) = 2
    /\ \A i \in Ids : subs[i].pc = "done" /\ subs[i].outcome = "success"
    /\ settled = <<2, 1>>
    /\ Len(messages) = 4

(* C6. When a submission fails with an error object (an encoding error,    *)
(* an adapter error that is not retried, exhausted retries, an empty or    *)
(* unreadable result), the step that settles it leaves the message         *)
(* sequence exactly as it was and raises exactly one notification; a       *)
(* failed submission has no assistant message and exactly one error        *)
(* notification.  Stated of SpecErrorObjects: a thrown undefined or null   *)
(* makes the catch throw at part_001:117 before it raises the              *)
(* notification.                                                           *)
C6_FailureLeavesMessages ==
    /\ [](\A i \in Ids : subs[i].outcome = "failed" =>
            /\ subs[i].pc = "done"
            /\ AssistantMsgsOf(i) = {}
            /\ Cardinality(ErrorToastsOf(i)) = 1)
    /\ [][\A i \in Ids : (Settles(i) /\ subs'[i].outcome = "failed") =>
            /\ messages' = messages
            /\ Len(toasts') = Len(toasts) + 1
            /\ SubSeq(toasts', 1, Len(toasts)) = toasts
            /\ toasts'[Len(toasts')].id = i
            /\ toasts'[Len(toasts')].title = "Error"]_vars

\* one submission exhausted its retries, the other failed at once with an
\* error that is not retried (the image could not be read)
C6_Witness ==
    \E i, j \in Ids :
        /\ subs[i].outcome = "failed" /\ subs[i].error = RateLimitStatus
        /\ subs[i].thrown = "adapter" /\ subs[i].calls = InitialRetries
        /\ subs[j].outcome = "failed" /\ subs[j].error = NoStatus
        /\ subs[j].thrown = "reader"
        /\ Len(messages) = 1 /\ messages[1].id = i /\ messages[1].isUser
        /\ Len(toasts) = 2

(* C7. Overlapping submissions lose no append: as long as the chat has not *)
(* been cleared, every submission that has got past its append has exactly *)
(* one user message in the sequence, every submission that succeeded has   *)
(* exactly one assistant message there, and the assistant messages are in  *)
(* the order in which the submissions completed (which may differ from the *)
(* order of submission).                                                   *)
C7_NoAppendLost ==
    ClearCount = 0 =>
        /\ \A i \in Ids :
            /\ Cardinality(UserMsgsOf(i)) = IF subs[i].calls >= 1 THEN 1 ELSE 0
            /\ Cardinality(AssistantMsgsOf(i)) =
                    IF subs[i].outcome = "success" THEN 1 ELSE 0
        /\ AssistantOrder = CompletionOrder

\* the second submission started while the first was in flight and
\* completed first
C7_Witness ==
    /\ Retry
    /\ ClearCount = 0
    /\ Len(subs) = 2
    /\ settled = <<2, 1>>
    /\ AssistantOrder = <<2, 1>>
    /\ \A i \in Ids : UserMsgsOf(i) # {}
    /\ \E k \in UserMsgsOf(2) : \E l \in AssistantMsgsOf(1) : k < l

(* C8. The message sequence is append-only except for clear: every step    *)
(* other than handleClearChat leaves the sequence as it was or appends     *)
(* exactly one message to it.                                              *)
C8_AppendOnly ==
    [][~IsClearStep =>
        \/ messages' = messages
        \/ /\ Len(messages') = Len(messages) + 1
           /\ SubSeq(messages', 1, Len(messages)) = messages]_vars

C8_Witness ==
    /\ Retry
    /\ ClearCount = 1
    /\ Len(messages) >= 2
    /\ \E i \in Ids : subs[i].pc # "done"

(* C9. A handleClearChat step leaves the message sequence empty, whatever  *)
(* its length before and whether or not submissions are in flight, and     *)
(* raises one notification, the confirmation.                              *)
C9_ClearEmpties ==
    [][IsClearStep =>
        /\ messages' = << >>
        /\ toasts' = Append(toasts, ClearToast)]_vars

C9_Witness ==
    /\ ClearCount = 1
    /\ toasts[Len(toasts)] = ClearToast
    /\ messages = << >>
    /\ \E i, j \in Ids : subs[i].pc = "calling" /\ subs[j].pc = "done"

(* C10. Retry revision: while the image is being encoded the submission    *)
(* has issued no adapter call, and a submission whose encoding was         *)
(* rejected never issues one: it settles as a failure with the generic     *)
(* notification.                                                           *)
EncodingRejected(i) ==
    /\ subs[i].pc = "done"
    /\ subs[i].image # NoImage
    /\ subs[i].base64Image = Undefined

C10_EncodingFailureAborts ==
    Retry => \A i \in Ids :
        /\ subs[i].pc = "encoding" => subs[i].calls = 0 /\ subs[i].log = << >>
        /\ (subs[i].image # NoImage /\ subs[i].base64Image = Undefined) =>
                subs[i].pc \in {"encoding", "done"}
        /\ EncodingRejected(i) =>
                /\ subs[i].calls = 0 /\ subs[i].log = << >>
                /\ subs[i].outcome = "failed"
                /\ OneErrorToast(i, GenericDescription)

C10_Witness ==
    /\ Retry
    /\ \E i \in Ids : EncodingRejected(i) /\ subs[i].outcome = "failed"

(* C11. Whenever a submission settles (success, adapter failure, retry     *)
(* exhaustion, empty result or image-encoding failure) the step that       *)
(* settles it leaves isLoading false, and isLoading is false whenever no   *)
(* submission is in flight.                                                *)
C11_BusyClearedOnSettle ==
    /\ [](( \A i \in Ids : subs[i].pc = "done" ) => ~isLoading)
    /\ [][\A i \in Ids : Settles(i) => ~isLoading']_vars

\* nothing in flight after an encoding failure and a retry exhaustion
C11_Witness ==
    /\ ~isLoading
    /\ \E i, j \in Ids :
        /\ subs[i].pc = "done" /\ subs[i].image # NoImage
        /\ subs[i].base64Image = Undefined
        /\ subs[j].pc = "done" /\ subs[j].log = <<"e429", "e429", "e429">>

(* C12. Provided every adapter call, every delay and every image encoding  *)
(* eventually returns, every submission eventually reaches a terminal      *)
(* outcome (success or failed), and it makes at most 3 adapter calls and   *)
(* at most 2 delays, for every sequence of adapter outcomes.               *)
C12_Terminates ==
    /\ \A i \in 1..MaxLiveSubmissions :
        [](i \in Ids => <>(/\ i \in Ids
                           /\ subs[i].pc = "done"
                           /\ subs[i].outcome \in {"success", "failed"}))
    /\ [](\A i \in Ids : subs[i].calls <= 3 /\ subs[i].delays <= 2)

\* a submission that ended on its third call, with a non-429 failure
C12_Witness ==
    \E i \in Ids : /\ subs[i].pc = "done"
                   /\ subs[i].log = <<"e429", "e429", "error">>
                   /\ subs[i].calls = 3 /\ subs[i].delays = 2

(* C13. Retry revision: the user message appended by a submission has      *)
(* content equal to the submitted text when the text is non-empty and      *)
(* equal to "Image analysis request" when it is empty, and has its image   *)
(* reference set if and only if an image was submitted.                    *)
C13_UserMessageContent ==
    Retry => \A k \in 1..Len(messages) :
        LET m == messages[k]
            s == subs[m.id]
        IN  m.isUser =>
            /\ s.query # "" => m.content = s.query
            /\ s.query = "" => m.content = "Image analysis request"
            /\ (m.image # Undefined) <=> (s.image # NoImage)

\* an image-only submission
C13_Witness ==
    /\ Retry
    /\ \E k \in 1..Len(messages) :
        /\ messages[k].isUser
        /\ subs[messages[k].id].query = ""
        /\ subs[messages[k].id].image # NoImage
        /\ messages[k].content = "Image analysis request"
        /\ messages[k].image # Undefined

(* C14. handleClearChat does not cancel or otherwise affect in-flight      *)
(* submissions: a clear step leaves the busy flag, every invocation's      *)
(* state (pc, retries, locals) and the completion record unchanged; and a  *)
(* submission that succeeds, also after a clear made while it was in       *)
(* flight, appends its assistant message to the sequence as it then is.    *)
C14_ClearLeavesInFlight ==
    /\ [][IsClearStep =>
            /\ isLoading' = isLoading
            /\ subs' = subs
            /\ settled' = settled]_vars
    /\ [][\A i \in Ids :
            (Settles(i) /\ subs'[i].outcome = "success") =>
                messages' = Append(messages, [content |-> ResponseText,
                    isUser |-> FALSE, image |-> Undefined, id |-> i])]_vars

\* invocation i was in flight when the chat was cleared (its user message
\* is gone) and then succeeded: the sequence holds only its answer
C14_Witness ==
    /\ ClearCount = 1
    /\ \E i, j \in Ids :
        /\ subs[i].outcome = "success"
        /\ UserMsgsOf(i) = {}
        /\ messages = <<[content |-> ResponseText, isUser |-> FALSE,
                         image |-> Undefined, id |-> i]>>
        /\ subs[j].pc = "delaying"

(* C15. Within each submission the steps occur in this order: busy set to  *)
(* true; image encoding awaited (if an image is present); user message     *)
(* appended; first adapter call issued; then the assistant message         *)
(* appended (success) or the error notification shown (failure); busy set  *)
(* to false, after which the submission does nothing more.  In particular  *)
(* the user message is appended before any adapter call of the submission  *)
(* and the assistant message only after one of its calls has succeeded.    *)
C15_StepOrder ==
    /\ [](\A i \in Ids :
            LET s == subs[i] IN
            \* nothing precedes the end of the encoding
            /\ s.pc = "encoding" =>
                    /\ s.calls = 0 /\ UserMsgsOf(i) = {}
                    /\ AssistantMsgsOf(i) = {} /\ ErrorToastsOf(i) = {}
            \* a call is issued only with the encoding done
            /\ (s.calls >= 1 /\ s.image # NoImage) => s.base64Image # Undefined
            \* no user message without the encoding done
            /\ (UserMsgsOf(i) # {} /\ s.image # NoImage) =>
                    s.base64Image # Undefined
            \* answer only after a successful call; notification only on failure
            /\ AssistantMsgsOf(i) # {} =>
                    /\ s.calls >= 1 /\ s.log # << >>
                    /\ s.log[Len(s.log)] = "ok" /\ s.outcome = "success"
            /\ ErrorToastsOf(i) # {} => s.pc = "done" /\ s.outcome = "failed"
            /\ s.pc # "done" =>
                    AssistantMsgsOf(i) = {} /\ ErrorToastsOf(i) = {})
    /\ [][/\ Len(subs') > Len(subs) => isLoading'
          /\ \A i \in 1..Len(subs') :
                LET old == IF i \in Ids THEN subs[i].calls ELSE 0 IN
                \* the step that issues the first call has the user message
                \* appended
                /\ (old = 0 /\ subs'[i].calls = 1) =>
                        /\ Len(messages') = Len(messages) + 1
                        /\ messages'[Len(messages')].id = i
                        /\ messages'[Len(messages')].isUser
                \* the settling step ends with busy false, and is the last
                /\ (i \in Ids /\ subs[i].pc # "done" /\ subs'[i].pc = "done")
                        => ~isLoading'
                /\ (i \in Ids /\ subs[i].pc = "done") => subs'[i] = subs[i]]_vars

\* an image submission that went through every step, with one retry
C15_Witness ==
    /\ Retry
    /\ \E i \in Ids :
        /\ subs[i].image # NoImage
        /\ subs[i].log = <<"e429", "ok">>
        /\ \E k \in UserMsgsOf(i) : \E l \in AssistantMsgsOf(i) : k < l
        /\ ~isLoading

(* C16. On the landing page the chat is initially hidden;                  *)
(* handleSearchSubmit stores the query as initialQuery and makes the chat  *)
(* visible; once visible the chat never becomes hidden again (and          *)
(* initialQuery no longer changes).  The chat's mount effect runs once and *)
(* issues exactly one submission, of initialQuery without image, when      *)
(* initialQuery is non-empty, and none when it is empty.                   *)
C16_LandingToChat ==
    /\ ~isChatVisible
    /\ [](~isChatVisible => ~mounted /\ subs = << >>)
    /\ []((mounted /\ initialQuery # "") =>
            /\ Len(subs) >= 1
            /\ subs[1].query = initialQuery /\ subs[1].image = NoImage)
    /\ [][/\ isChatVisible => isChatVisible' /\ initialQuery' = initialQuery
          /\ (~isChatVisible /\ isChatVisible') =>
                initialQuery' \in Queries /\ subs' = subs /\ ~mounted'
          /\ mounted => mounted'
          /\ (~mounted /\ mounted') =>
                /\ isChatVisible
                /\ Len(subs') = Len(subs) + (IF initialQuery # "" THEN 1 ELSE 0)]_vars

\* the chat was opened with a question, which the mount effect submitted
C16_Witness ==
    /\ isChatVisible /\ mounted
    /\ initialQuery = "q"
    /\ Len(subs) = 1
    /\ subs[1].query = "q"
    /\ subs[1].pc = "calling"

(* C17. Retry revision: in every reachable state of the retry loop the     *)
(* counter retries is in 1..3; it changes only by being decremented from a *)
(* value greater than 1, so the loop condition retries > 0 never becomes   *)
(* false and the loop is left only by a successful call or a rethrown      *)
(* error.  The "Failed to generate response after retries" throw of        *)
(* :104-106 therefore happens only when a call has resolved with an empty  *)
(* result, never through retry exhaustion, which ends with the 429 error   *)
(* itself.                                                                 *)
C17_RetriesStayPositive ==
    /\ [](Retry => \A i \in Ids :
            LET s == subs[i] IN
            /\ s.calls >= 1 => s.retries \in 1..3
            /\ s.pc \in {"calling", "delaying"} =>
                    /\ s.retries > 0
                    /\ s.retries = InitialRetries - s.delays
            /\ s.thrown = "no result" =>
                    /\ s.calls >= 1 /\ s.log # << >>
                    /\ s.log[Len(s.log)] = "empty"
                    /\ s.result = Undefined
                    /\ s.outcome = "failed" /\ s.error = NoStatus
            /\ (s.pc = "done" /\ s.log # << >> /\ AllRateLimited(s.log)) =>
                    s.error = RateLimitStatus /\ s.retries = 1)
    /\ [][Retry => \A i \in Ids :
            subs'[i].retries # subs[i].retries =>
                \/ subs[i].pc = "encoding" /\ subs'[i].retries = InitialRetries
                \/ /\ subs[i].retries > 1
                   /\ subs'[i].retries = subs[i].retries - 1
                   /\ subs'[i].pc = "delaying"]_vars

\* the no-result throw, reached by an empty result on the second attempt
C17_Witness ==
    /\ Retry
    /\ \E i \in Ids :
        /\ subs[i].log = <<"e429", "empty">>
        /\ subs[i].outcome = "failed" /\ subs[i].error = NoStatus
        /\ subs[i].thrown = "no result"
        /\ subs[i].retries = 2

(* C18. Retry revision: a submission whose image encoding fails leaves the *)
(* message sequence unchanged: its user message is never appended (the     *)
(* append happens only after the encoding succeeds), so it contributes     *)
(* zero messages, while a submission that fails at the adapter contributes *)
(* exactly one message, its user message.                                  *)
C18_EncodingFailureAddsNothing ==
    /\ [](Retry => \A i \in Ids :
            LET s == subs[i] IN
            /\ (s.image # NoImage /\ s.base64Image = Undefined) =>
                    UserMsgsOf(i) = {} /\ AssistantMsgsOf(i) = {}
            /\ (s.outcome = "failed" /\ s.calls >= 1) =>
                    /\ AssistantMsgsOf(i) = {}
                    /\ ClearCount = 0 => Cardinality(UserMsgsOf(i)) = 1)
    /\ [][Retry => \A i \in Ids :
            (Settles(i) /\ subs[i].pc = "encoding") =>
                messages' = messages /\ subs'[i].outcome = "failed"]_vars

\* one submission failed at the encoding, the other at the adapter
C18_Witness ==
    /\ Retry /\ ClearCount = 0
    /\ \E i, j \in Ids :
        /\ subs[i].pc = "done" /\ subs[i].outcome = "failed"
        /\ subs[i].image # NoImage /\ subs[i].calls = 0
        /\ subs[j].pc = "done" /\ subs[j].outcome = "failed"
        /\ subs[j].calls >= 1
        /\ Len(messages) = 1 /\ messages[1].id = j /\ messages[1].isUser

(* C19. In a run with no clear, every assistant message in the sequence is *)
(* preceded (not necessarily immediately) by the user message of the same  *)
(* submission, so every prefix of the sequence holds at least as many user *)
(* messages as assistant messages, for any interleaving of overlapping     *)
(* submissions and any mix of successes and failures.                      *)
UsersIn(n) == Cardinality({k \in 1..n : messages[k].isUser})
AssistantsIn(n) == Cardinality({k \in 1..n : ~messages[k].isUser})

C19_UserBeforeAssistant ==
    ClearCount = 0 =>
        /\ \A l \in 1..Len(messages) :
            ~messages[l].isUser =>
                \E k \in 1..(l - 1) : /\ messages[k].isUser
                                      /\ messages[k].id = messages[l].id
        /\ \A n \in 0..Len(messages) : UsersIn(n) >= AssistantsIn(n)

\* overlapping submissions: question 1, question 2, answer 2, while the
\* first submission is still retrying
C19_Witness ==
    /\ ClearCount = 0
    /\ Len(messages) = 3
    /\ messages[1].id = 1 /\ messages[1].isUser
    /\ messages[2].id = 2 /\ messages[2].isUser
    /\ messages[3].id = 2 /\ ~messages[3].isUser
    /\ subs[1].pc = "delaying"
====
